---- MODULE Spec2Model ----
(***************************************************************************)
(* Model of tools/trailwaze_dashboard.py: RepositoryAnalyzer (the seven    *)
(* analysis passes and analyze()) and DashboardServer.generate_dashboard.  *)
(*                                                                         *)
(* Conventions.  File names and commit subjects are sequences of one-      *)
(* character strings, so that str.endswith, the `in` substring test,       *)
(* str.lower and os.path.splitext are computed character by character.     *)
(* Directory names, branch names and author names are only ever compared   *)
(* for equality by the code and are plain strings.  Timestamps are whole   *)
(* days.  Decimal results are kept as scaled integers: size_kb in tenths   *)
(* of a KB, commits_per_day in hundredths, refactoring_ratio in tenths of  *)
(* a percent.                                                              *)
(*                                                                         *)
(* Spec runs two analyzers and the dashboard server over a repository that *)
(* changes between runs; SpecPasses runs one analyzer over many trees and  *)
(* many outcomes of the git queries.                                       *)
(***************************************************************************)
EXTENDS Integers, Sequences, FiniteSets, TLC

VARIABLES
    repo,       \* the repository on disk and the answers of the git tool
    now,        \* the clock (datetime.now()), in days
    data,       \* data[a]: RepositoryAnalyzer.data of analyzer a
    pc,         \* pc[a]: position of analyzer a inside analyze()
    rec,        \* rec[a]: the dict display of analyze() evaluated so far
    git_data,   \* git_data[a]: the local git_data of _analyze_git
    issued,     \* issued[a]: git queries issued by the current call, in order
    passes,     \* passes[a]: passes started by the current call, in order
    cov_in,     \* cov_in[a]: the locals source_lines/test_lines of _analyze_tests
    calls,      \* calls[a]: number of analyze() calls begun on analyzer a
    ret,        \* ret[a]: what the last analyze() call returned
    ran_on,     \* ran_on[a]: repository and clock values the last call read
    server      \* DashboardServer: data and rendering position

vars == << repo, now, data, pc, rec, git_data, issued, passes, cov_in,
           calls, ret, ran_on, server >>

----------------------------------------------------------------------------
(* Bounds of the model *)

MaxCalls == 3          \* analyze() calls per behaviour (all analyzers)
NowStart == 10         \* the clock at the start of a behaviour
MaxTicks == 1          \* days the clock may advance during a behaviour
MaxPick == 2           \* files of the catalogue in one scanned repository
BigFiles == 22         \* files in the repositories that exceed the caps
BigLog == 101          \* commits in the long git log
MaxRuns == 2           \* analyze() calls in the single-analyzer specification

----------------------------------------------------------------------------
(* Python helpers *)

Min(a, b) == IF a <= b THEN a ELSE b
Max(a, b) == IF a >= b THEN a ELSE b

\* int(x) for x = n/d >= 0 : truncation
Trunc(n, d) == n \div d

\* round(n/d) scaled: the integer nearest to n/d, ties to even (n >= 0, d > 0)
RoundHalfEven(n, d) ==
    LET q == n \div d
        r == n % d
    IN  IF 2 * r < d THEN q
        ELSE IF 2 * r > d THEN q + 1
        ELSE IF q % 2 = 0 THEN q ELSE q + 1

\* str.endswith(suf)
EndsWith(s, suf) ==
    /\ Len(s) >= Len(suf)
    /\ SubSeq(s, Len(s) - Len(suf) + 1, Len(s)) = suf

\* str.endswith((suf1, suf2, ...))
EndsWithAny(s, sufs) == \E suf \in sufs : EndsWith(s, suf)

\* sub in s
Contains(s, sub) ==
    \E i \in 1..(Len(s) - Len(sub) + 1) : SubSeq(s, i, i + Len(sub) - 1) = sub

LowerChar(c) ==
    CASE c = "A" -> "a" [] c = "B" -> "b" [] c = "C" -> "c" [] c = "D" -> "d"
      [] c = "E" -> "e" [] c = "F" -> "f" [] c = "G" -> "g" [] c = "H" -> "h"
      [] c = "I" -> "i" [] c = "J" -> "j" [] c = "K" -> "k" [] c = "L" -> "l"
      [] c = "M" -> "m" [] c = "N" -> "n" [] c = "O" -> "o" [] c = "P" -> "p"
      [] c = "Q" -> "q" [] c = "R" -> "r" [] c = "S" -> "s" [] c = "T" -> "t"
      [] c = "U" -> "u" [] c = "V" -> "v" [] c = "W" -> "w" [] c = "X" -> "x"
      [] c = "Y" -> "y" [] c = "Z" -> "z"
      [] OTHER -> c

\* str.lower()
Lower(s) == [i \in 1..Len(s) |-> LowerChar(s[i])]

\* os.path.splitext(file)[1]: from the last dot, unless only dots precede it
SplitExt(file) ==
    LET dots == {i \in 1..Len(file) : file[i] = "."}
    IN  IF dots = {} THEN << >>
        ELSE LET last == CHOOSE i \in dots : \A j \in dots : j <= i
             IN  IF \E k \in 1..(last - 1) : file[k] # "."
                 THEN SubSeq(file, last, Len(file))
                 ELSE << >>

OTHER_EXT == << "o", "t", "h", "e", "r" >>

\* os.path.splitext(file)[1] or "other"
ExtOrOther(file) == IF SplitExt(file) = << >> THEN OTHER_EXT ELSE SplitExt(file)

\* an insertion that puts x in front of the elements with its own key
RECURSIVE InsertDescUnstable(_, _)
InsertDescUnstable(sorted, x) ==
    IF sorted = << >> THEN << x >>
    ELSE IF Head(sorted).key > x.key
         THEN << Head(sorted) >> \o InsertDescUnstable(Tail(sorted), x)
         ELSE << x >> \o sorted

\* sorted(xs, key=..., reverse=True) on a list of [key, item] pairs: stable,
\* descending by key.  Insert x behind every element whose key is >= its own.
RECURSIVE InsertDesc(_, _)
InsertDesc(sorted, x) ==
    IF sorted = << >> THEN << x >>
    ELSE IF Head(sorted).key >= x.key
         THEN << Head(sorted) >> \o InsertDesc(Tail(sorted), x)
         ELSE << x >> \o sorted

RECURSIVE SortPairs(_)
SortPairs(ps) ==
    IF ps = << >> THEN << >>
    ELSE InsertDesc(SortPairs(SubSeq(ps, 1, Len(ps) - 1)), ps[Len(ps)])

\* sorted(xs, key=..., reverse=True), keys[i] being the key of xs[i]
SortedDesc(xs, keys) ==
    LET ps == [i \in 1..Len(xs) |-> [key |-> keys[i], item |-> xs[i]]]
        qs == SortPairs(ps)
    IN  [i \in 1..Len(qs) |-> qs[i].item]

\* xs[:n]
Take(xs, n) == SubSeq(xs, 1, Min(n, Len(xs)))

\* sum(ns)
RECURSIVE SumInts(_)
SumInts(ns) == IF ns = << >> THEN 0 ELSE Head(ns) + SumInts(Tail(ns))

----------------------------------------------------------------------------
(* File-name suffixes and directory deny-lists used by the walkers *)

S_js == << ".", "j", "s" >>
S_ts == << ".", "t", "s" >>
S_tsx == << ".", "t", "s", "x" >>
S_jsx == << ".", "j", "s", "x" >>
S_py == << ".", "p", "y" >>
S_java == << ".", "j", "a", "v", "a" >>
S_go == << ".", "g", "o" >>
S_rs == << ".", "r", "s" >>
S_md == << ".", "m", "d" >>
S_json == << ".", "j", "s", "o", "n" >>
S_yaml == << ".", "y", "a", "m", "l" >>
S_yml == << ".", "y", "m", "l" >>
S_toml == << ".", "t", "o", "m", "l" >>
S_xml == << ".", "x", "m", "l" >>
S_rst == << ".", "r", "s", "t" >>
S_txt == << ".", "t", "x", "t" >>
S_test == << "t", "e", "s", "t" >>
S_dot_test == << "." >> \o S_test
S_dot_spec == << ".", "s", "p", "e", "c" >>
S_test_ == S_test \o << "_" >>
S__test == << "_" >> \o S_test

SOURCE_SUFFIXES == {S_js, S_ts, S_tsx, S_jsx, S_py, S_java, S_go, S_rs}

\* the test suffixes that keep a file out of main_files
MAIN_TEST_SUFFIXES ==
    {S_dot_test \o S_js, S_dot_spec \o S_js, S_dot_test \o S_ts, S_dot_spec \o S_ts}

\* the test suffixes of the LOC breakdown
LOC_TEST_SUFFIXES ==
    {S_dot_test \o S_js, S_dot_test \o S_ts, S_dot_spec \o S_js,
     S_dot_spec \o S_ts, S_dot_test \o S_py}

CONFIG_SUFFIXES == {S_json, S_yaml, S_yml, S_toml, S_xml}

CODE_DENY ==
    {"node_modules", ".git", "coverage", "build", "dist", "venv", ".venv",
     ".next", "out", "public", "__pycache__", ".pytest_cache", ".env.local"}

TESTS_DENY == {"node_modules", ".git", "coverage"}

\* a list that forgets one directory
FILES_DENY_NoDist == {"node_modules", ".git", "coverage", "build"}

FILES_DENY == {"node_modules", ".git", "coverage", "build", "dist"}

MAIN_FILES_CAP == 20
TEST_FILES_CAP == 15
LARGEST_FILES_CAP == 15
COMMIT_HISTORY_CAP == 100

\* os.walk with `dirs[:] = [d for d in dirs if d not in deny]`: a file is
\* visited iff no directory on its path below the root is on the deny-list;
\* repo files are listed in os.walk order, which pruning does not reorder.
Walk(files, deny) ==
    SelectSeq(files, LAMBDA f : \A i \in 1..Len(f.dirs) : f.dirs[i] \notin deny)

\* os.path.relpath(filepath, self.repo_root)
RelPath(f) == [dirs |-> f.dirs, name |-> f.name]

----------------------------------------------------------------------------
(* _analyze_code *)

\* len(f.readlines()): a last line without newline counts as a line
ReadLines(f) == f.nl + (IF f.tail THEN 1 ELSE 0)

\* a table whose new entry starts from the count alone
BumpStatsFirstLost(stats, ext, lines) ==
    IF \E i \in 1..Len(stats) : stats[i].ext = ext
    THEN [i \in 1..Len(stats) |->
            IF stats[i].ext = ext
            THEN [stats[i] EXCEPT !.count = @ + 1, !.lines = @ + lines]
            ELSE stats[i]]
    ELSE Append(stats, [ext |-> ext, count |-> 1, lines |-> 0])

\* file_stats[ext]["count"] += 1; file_stats[ext]["lines"] += lines
\* (a defaultdict: entries are kept in order of first insertion)
BumpStats(stats, ext, lines) ==
    IF \E i \in 1..Len(stats) : stats[i].ext = ext
    THEN [i \in 1..Len(stats) |->
            IF stats[i].ext = ext
            THEN [stats[i] EXCEPT !.count = @ + 1, !.lines = @ + lines]
            ELSE stats[i]]
    ELSE Append(stats, [ext |-> ext, count |-> 1, lines |-> lines])

\* the condition of "Track main source files"
IsMainFile(file) ==
    /\ EndsWithAny(file, SOURCE_SUFFIXES)
    /\ ~ EndsWithAny(file, MAIN_TEST_SUFFIXES)

\* the chain with the source suffixes tested first
AddLocSourceFirst(loc, file, lines) ==
    IF EndsWithAny(file, SOURCE_SUFFIXES) THEN [loc EXCEPT !.source = @ + lines]
    ELSE IF EndsWithAny(file, LOC_TEST_SUFFIXES) THEN [loc EXCEPT !.tests = @ + lines]
    ELSE IF EndsWith(file, S_md) THEN [loc EXCEPT !.docs = @ + lines]
    ELSE IF EndsWithAny(file, CONFIG_SUFFIXES) THEN [loc EXCEPT !.config = @ + lines]
    ELSE loc

\* "Track LOC breakdown": the if/elif chain
AddLoc(loc, file, lines) ==
    IF EndsWithAny(file, LOC_TEST_SUFFIXES) THEN [loc EXCEPT !.tests = @ + lines]
    ELSE IF EndsWith(file, S_md) THEN [loc EXCEPT !.docs = @ + lines]
    ELSE IF EndsWithAny(file, CONFIG_SUFFIXES) THEN [loc EXCEPT !.config = @ + lines]
    ELSE IF EndsWithAny(file, SOURCE_SUFFIXES) THEN [loc EXCEPT !.source = @ + lines]
    ELSE loc

\* a body that counts the file before it reads it
ScanOneFileCountFirst(acc, f) ==
    LET ext == ExtOrOther(f.name)
        lines == IF f.readable THEN ReadLines(f) ELSE 0
    IN  [ file_stats |-> BumpStats(acc.file_stats, ext, lines),
          total_lines |-> acc.total_lines + lines,
          main_files |->
              IF f.readable /\ IsMainFile(f.name)
              THEN Append(acc.main_files,
                          [path |-> RelPath(f), lines |-> lines, ext |-> ext])
              ELSE acc.main_files,
          loc_breakdown |-> AddLoc(acc.loc_breakdown, f.name, lines) ]

\* the body of `for file in files` for one file: the whole body is inside
\* try/except, and open()/readlines() raise before any counter is touched
ScanOneFile(acc, f) ==
    IF ~ f.readable THEN acc
    ELSE LET lines == ReadLines(f)
             ext == ExtOrOther(f.name)
         IN  [ file_stats |-> BumpStats(acc.file_stats, ext, lines),
               total_lines |-> acc.total_lines + lines,
               main_files |->
                   IF IsMainFile(f.name)
                   THEN Append(acc.main_files,
                               [path |-> RelPath(f), lines |-> lines, ext |-> ext])
                   ELSE acc.main_files,
               loc_breakdown |-> AddLoc(acc.loc_breakdown, f.name, lines) ]

ScanInit ==
    [ file_stats |-> << >>, total_lines |-> 0, main_files |-> << >>,
      loc_breakdown |-> [source |-> 0, tests |-> 0, config |-> 0, docs |-> 0] ]

RECURSIVE ScanFiles(_, _)
ScanFiles(acc, fs) ==
    IF fs = << >> THEN acc ELSE ScanFiles(ScanOneFile(acc, Head(fs)), Tail(fs))

\* sorted(code_data["main_files"], key=lines, reverse=True)[:20]
RankMainFiles(entries) ==
    Take(SortedDesc(entries, [i \in 1..Len(entries) |-> entries[i].lines]), MAIN_FILES_CAP)

_analyze_code(r) ==
    LET acc == ScanFiles(ScanInit, Walk(r.files, CODE_DENY))
    IN  [ languages |-> << >>,
          total_lines |-> acc.total_lines,
          files_by_extension |->
              SortedDesc(acc.file_stats,
                         [i \in 1..Len(acc.file_stats) |-> acc.file_stats[i].lines]),
          main_files |-> RankMainFiles(acc.main_files),
          loc_breakdown |-> acc.loc_breakdown ]

----------------------------------------------------------------------------
(* _analyze_tests *)

\* test_file_patterns with pattern.replace("*", "") applied: "test_*.py" and
\* "test_*.java" become the suffixes "test_.py" and "test_.java"
TEST_FILE_SUFFIXES ==
    {S_dot_test \o S_js, S_dot_spec \o S_js, S_dot_test \o S_ts, S_dot_spec \o S_ts,
     S_dot_test \o S_py, S_test_ \o S_py, S__test \o S_py,
     S__test \o S_go, S_test_ \o S_java}

\* `"__tests__" in root`: directory names are atomic here, so the substring
\* test is taken per path component (the root path itself is assumed not to
\* contain the word)
InTestsDir(f) == \E i \in 1..Len(f.dirs) : f.dirs[i] = "__tests__"

\* is_test or "test" in file.lower() or "__tests__" in root
IsTestCandidate(f) ==
    \/ EndsWithAny(f.name, TEST_FILE_SUFFIXES)
    \/ Contains(Lower(f.name), S_test)
    \/ InTestsDir(f)

\* content.count("it(") + content.count("test(") + ... + content.count("@Test")
TestCount(f) ==
    f.marks.it + f.marks.test + f.marks.describe
        + f.marks.def_test + f.marks.func_test + f.marks.at_test

\* len(content.split('\n'))
SplitLines(f) == f.nl + 1

\* "Detect test frameworks" for one file
FrameworksOf(f) ==
    (IF "jest" \in f.sigs \/ Contains(f.name, << "j", "e", "s", "t" >>)
        \/ (\E i \in 1..Len(f.dirs) : f.dirs[i] = "jest")
     THEN {"Jest"} ELSE {})
    \cup (IF "mocha" \in f.sigs THEN {"Mocha"} ELSE {})
    \cup (IF "pytest" \in f.sigs THEN {"Pytest"} ELSE {})
    \cup (IF f.marks.at_test > 0 THEN {"JUnit"} ELSE {})
    \cup (IF "testing.T" \in f.sigs THEN {"Go testing"} ELSE {})

\* the files that reach test_files.append(...)
CountsAsTestFile(f) == IsTestCandidate(f) /\ f.readable /\ TestCount(f) > 0

TestEntry(f) == [path |-> RelPath(f), tests |-> TestCount(f), lines |-> SplitLines(f)]

\* sorted(test_files, key=tests, reverse=True)[:15]
RankTestFiles(entries) ==
    Take(SortedDesc(entries, [i \in 1..Len(entries) |-> entries[i].tests]), TEST_FILES_CAP)

\* self.data.get(key, {}) and the nested .get calls
HasKey(d, k) == k \in DOMAIN d

\* the locals of "Calculate test coverage": code_data is read from self.data,
\* the record the previous analyze() call stored ({} on a new analyzer)
CoverageInputs(d) ==
    IF HasKey(d, "code")
    THEN [read |-> TRUE,
          source_lines |-> d.code.loc_breakdown.source,
          test_lines |-> d.code.loc_breakdown.tests]
    ELSE [read |-> FALSE, source_lines |-> 0, test_lines |-> 0]

\* the ratio without its cap
CoverageValueUncapped(test_lines, source_lines) ==
    Trunc(test_lines * 100, source_lines)

\* min(100, int((test_lines / source_lines) * 100)); the float product equals
\* the exact quotient for the line counts of this model
CoverageValue(test_lines, source_lines) ==
    Min(100, Trunc(test_lines * 100, source_lines))

TestCoverage(d) ==
    LET in == CoverageInputs(d)
    IN  IF in.read /\ in.source_lines > 0
        THEN CoverageValue(in.test_lines, in.source_lines)
        ELSE 0

_analyze_tests(r, d) ==
    LET found == SelectSeq(Walk(r.files, TESTS_DENY), CountsAsTestFile)
        entries == [i \in 1..Len(found) |-> TestEntry(found[i])]
    IN  [ total_tests |-> SumInts([i \in 1..Len(entries) |-> entries[i].tests]),
          test_files |-> RankTestFiles(entries),
          test_frameworks |-> UNION {FrameworksOf(found[i]) : i \in 1..Len(found)},
          test_coverage |-> TestCoverage(d),
          test_suites |-> << >> ]

----------------------------------------------------------------------------
(* _analyze_files *)

\* config_patterns, compared with `file in config_patterns`
CONFIG_NAMES ==
    { << "p", "a", "c", "k", "a", "g", "e", ".", "j", "s", "o", "n" >>,
      << "t", "s", "c", "o", "n", "f", "i", "g", ".", "j", "s", "o", "n" >>,
      << "j", "e", "s", "t", ".", "c", "o", "n", "f", "i", "g", ".", "j", "s" >>,
      << ".", "g", "i", "t", "l", "a", "b", "-", "c", "i", ".", "y", "m", "l" >>,
      << "D", "o", "c", "k", "e", "r", "f", "i", "l", "e" >>,
      << "d", "o", "c", "k", "e", "r", "-", "c", "o", "m", "p", "o", "s", "e", ".", "y", "m", "l" >>,
      << ".", "e", "n", "v", ".", "e", "x", "a", "m", "p", "l", "e" >>,
      << "s", "e", "t", "u", "p", ".", "p", "y" >>,
      << "p", "y", "p", "r", "o", "j", "e", "c", "t", ".", "t", "o", "m", "l" >>,
      << "g", "o", ".", "m", "o", "d" >>,
      << "C", "a", "r", "g", "o", ".", "t", "o", "m", "l" >>,
      << "p", "o", "m", ".", "x", "m", "l" >>,
      << ".", "e", "s", "l", "i", "n", "t", "r", "c" >>,
      << ".", "p", "r", "e", "t", "t", "i", "e", "r", "r", "c" >> }

DOC_SUFFIXES == {S_md, S_rst, S_txt}

\* round(os.path.getsize(filepath) / 1024, 1), in tenths of a KB
SizeKb(f) == RoundHalfEven(f.size * 10, 1024)

\* a file whose getsize raises is counted in total_files and nowhere else
Sized(f) == f.statable

FileEntry(f) == [path |-> RelPath(f), size_kb |-> SizeKb(f), ext |-> SplitExt(f.name)]

\* sorted(all_files, key=size_kb, reverse=True)[:15]
RankLargest(entries) ==
    Take(SortedDesc(entries, [i \in 1..Len(entries) |-> entries[i].size_kb]), LARGEST_FILES_CAP)

\* ext_counts[ext] += 1 (a defaultdict(int), in order of first insertion)
BumpCount(counts, ext) ==
    IF \E i \in 1..Len(counts) : counts[i].ext = ext
    THEN [i \in 1..Len(counts) |->
            IF counts[i].ext = ext THEN [counts[i] EXCEPT !.count = @ + 1]
            ELSE counts[i]]
    ELSE Append(counts, [ext |-> ext, count |-> 1])

\* the loop over all_files with `ext = file_info["ext"] or "other"`
RECURSIVE CountExts(_, _)
CountExts(counts, entries) ==
    IF entries = << >> THEN counts
    ELSE CountExts(
           BumpCount(counts,
                     IF Head(entries).ext = << >> THEN OTHER_EXT ELSE Head(entries).ext),
           Tail(entries))

_analyze_files(r) ==
    LET seen == Walk(r.files, FILES_DENY)
        ok == SelectSeq(seen, Sized)
        all_files == [i \in 1..Len(ok) |-> FileEntry(ok[i])]
        configs == SelectSeq(ok, LAMBDA f : f.name \in CONFIG_NAMES)
        docs == SelectSeq(ok, LAMBDA f : EndsWithAny(f.name, DOC_SUFFIXES))
        ext_counts == CountExts(<< >>, all_files)
    IN  [ total_files |-> Len(seen),
          config_files |-> [i \in 1..Len(configs) |-> RelPath(configs[i])],
          documentation |-> [i \in 1..Len(docs) |-> RelPath(docs[i])],
          largest_files |-> RankLargest(all_files),
          file_distribution |->
              SortedDesc(ext_counts,
                         [i \in 1..Len(ext_counts) |-> ext_counts[i].count]) ]

----------------------------------------------------------------------------
(* _analyze_git *)

\* None, as the value of first_commit_date and last_commit_date; a date the
\* git tool printed is [set |-> TRUE, parses |-> whether
\* datetime.fromisoformat accepts it, day |-> the day it names]
NoDate == [set |-> FALSE, parses |-> FALSE, day |-> 0]

GitDefaults ==
    [ total_commits |-> 0, branches |-> << >>, current_branch |-> "unknown",
      contributors |-> << >>, commit_history |-> << >>,
      first_commit_date |-> NoDate, last_commit_date |-> NoDate ]

\* the five subprocess.run calls, in program order
GIT_QUERIES == << "count", "branch", "branches", "contributors", "log" >>

\* subprocess.run raises (TimeoutExpired; any other exception of the call)
Raises(res) == res.status = "timeout"

\* str.strip() on the lines the git tool prints in this model
Strip(line) ==
    CASE line = "* main" -> "* main"
      [] line = "  dev" -> "dev"
      [] line = "  " -> ""
      [] line = " bob" -> "bob"
      [] line = "main " -> "main"
      [] OTHER -> line

\* str.replace("* ", "")
Unstar(line) == IF line = "* main" THEN "main" ELSE line

\* list(dict.fromkeys(xs)): first occurrences, in order
Dedup(xs) ==
    LET firsts == {i \in 1..Len(xs) : \A j \in 1..(i - 1) : xs[j] # xs[i]}
        keep == SelectSeq([i \in 1..Len(xs) |-> i], LAMBDA i : i \in firsts)
    IN  [k \in 1..Len(keep) |-> xs[keep[k]]]

\* "Total commits": int(result.stdout.strip()) raises on a non-number
CountRaises(res) == res.status = "ok" /\ ~ res.out.parses

AfterCount(g, res) ==
    IF res.status = "ok" THEN [g EXCEPT !.total_commits = res.out.n] ELSE g

\* "Current branch"
AfterBranch(g, res) ==
    IF res.status = "ok" THEN [g EXCEPT !.current_branch = Strip(res.out)] ELSE g

\* "All branches"
AfterBranches(g, res) ==
    IF res.status = "ok"
    THEN LET kept == SelectSeq(res.out, LAMBDA b : Strip(b) # "")
         IN  [g EXCEPT !.branches = [i \in 1..Len(kept) |-> Unstar(Strip(kept[i]))]]
    ELSE g

\* "Contributors": de-duplicated before the names are stripped
AfterContributors(g, res) ==
    IF res.status = "ok"
    THEN LET uniq == Dedup(res.out)
             kept == SelectSeq(uniq, LAMBDA c : Strip(c) # "")
         IN  [g EXCEPT !.contributors = [i \in 1..Len(kept) |-> Strip(kept[i])]]
    ELSE g

\* one parsed line of the log: parts[0][:7], parts[1], parts[2], parts[3]
CommitEntry(line) ==
    [ hash |-> Take(line.hash, 7), date |-> line.date,
      message |-> line.message, author |-> line.author ]

\* `if line:` and `if len(parts) >= 4:`
ParsedLine(line) == line.fields >= 4

\* the two dates taken from the retained entries
AfterLogRetained(g, res) ==
    IF res.status = "ok"
    THEN LET good == SelectSeq(res.out, ParsedLine)
             commits == [i \in 1..Len(good) |-> CommitEntry(good[i])]
             kept == Take(commits, COMMIT_HISTORY_CAP)
             g1 == [g EXCEPT !.commit_history = kept]
         IN  IF kept # << >>
             THEN [g1 EXCEPT !.first_commit_date = kept[Len(kept)].date,
                             !.last_commit_date = kept[1].date]
             ELSE g1
    ELSE g

\* "Full commit history with dates"
AfterLog(g, res) ==
    IF res.status = "ok"
    THEN LET good == SelectSeq(res.out, ParsedLine)
             commits == [i \in 1..Len(good) |-> CommitEntry(good[i])]
             g1 == [g EXCEPT !.commit_history = Take(commits, COMMIT_HISTORY_CAP)]
         IN  IF commits # << >>
             THEN [g1 EXCEPT !.first_commit_date = commits[Len(commits)].date,
                             !.last_commit_date = commits[1].date]
             ELSE g1
    ELSE g

\* what one query does to git_data
AfterQuery(q, g, res) ==
    CASE q = "count" -> AfterCount(g, res)
      [] q = "branch" -> AfterBranch(g, res)
      [] q = "branches" -> AfterBranches(g, res)
      [] q = "contributors" -> AfterContributors(g, res)
      [] q = "log" -> AfterLog(g, res)

\* the query leaves the try block through `except Exception`
QueryAborts(q, res) == Raises(res) \/ (q = "count" /\ CountRaises(res))

\* a handler that gives up what the pass had collected
GitDataDiscarded(g) == GitDefaults

\* `except Exception as e`: the error is printed and the pass goes on to
\* `return git_data` with the fields set so far
GitDataAfterException(g) == g

\* a check that never takes the early return
GitDirAssumed(r) == TRUE

\* git_dir.exists()
GitDirExists(r) == r.has_git

----------------------------------------------------------------------------
(* _calculate_quality_metrics *)

REFACTOR_KEYWORDS ==
    { << "r", "e", "f", "a", "c", "t", "o", "r" >>,
      << "c", "l", "e", "a", "n", "u", "p" >>,
      << "r", "e", "o", "r", "g", "a", "n", "i", "z", "e" >>,
      << "u", "p", "d", "a", "t", "e" >>,
      << "m", "o", "v", "e" >>,
      << "r", "e", "n", "a", "m", "e" >> }

CODE_ORGANIZATION_SCORE == 75

\* any(kw in c["message"].lower() for kw in refactor_keywords)
IsRefactor(c) == \E kw \in REFACTOR_KEYWORDS : Contains(Lower(c.message), kw)

\* git_data = self.data.get("git", {}): read from the stored record
QualityGit(d) == IF HasKey(d, "git") THEN d.git ELSE << >>

\* "Project age": max(1, (datetime.now() - first).days) when the date parses
ProjectAge(g, t) ==
    IF HasKey(g, "first_commit_date") /\ g.first_commit_date.set
       /\ g.first_commit_date.parses
    THEN Max(1, t - g.first_commit_date.day)
    ELSE 1

\* round(total_commits / age, 2), in hundredths.  Python rounds the float
\* quotient; it agrees with the exact quotient rounded half to even for the
\* commit counts and ages of this model (it differs for ages 40 and 80).
CommitsPerDay(total_commits, age) ==
    IF age > 0 THEN RoundHalfEven(total_commits * 100, age) ELSE 0

\* round((refactor_count / total_commits) * 100, 1), in tenths of a percent
RefactoringRatio(g) ==
    LET total_commits == IF HasKey(g, "total_commits") THEN g.total_commits ELSE 0
        commits == IF HasKey(g, "commit_history") THEN g.commit_history ELSE << >>
        refactor_count == Len(SelectSeq(commits, IsRefactor))
    IN  IF total_commits > 0
        THEN RoundHalfEven(refactor_count * 1000, total_commits)
        ELSE 0

_calculate_quality_metrics(d, t) ==
    LET g == QualityGit(d)
        age == ProjectAge(g, t)
        total_commits == IF HasKey(g, "total_commits") THEN g.total_commits ELSE 0
    IN  [ project_age_days |-> age,
          commits_per_day |-> CommitsPerDay(total_commits, age),
          refactoring_ratio |-> RefactoringRatio(g),
          code_organization_score |-> CODE_ORGANIZATION_SCORE ]

----------------------------------------------------------------------------
(* _analyze_dependencies *)

DepsDefaults ==
    [ package_managers |-> << >>, dependencies |-> [kind |-> "mapping", size |-> 0],
      dev_dependencies |-> [kind |-> "mapping", size |-> 0], total_deps |-> 0 ]

\* len(x) raises TypeError for a number
HasLen(v) == v.kind \in {"mapping", "list"}

\* "Check package.json".  The manifest is [exists, readable, json, deps, dev]:
\* json is "invalid" (json.load raises), "object" or "other" (a top-level value
\* without .get); deps and dev are the values under "dependencies" and
\* "devDependencies" ([kind |-> "mapping"] of size 0 stands for a missing key,
\* the default of pkg.get).  Each statement before the one that raises has
\* already changed deps_data.
AfterPackageJson(dd, m) ==
    IF ~ m.exists \/ ~ m.readable \/ m.json = "invalid" THEN dd
    ELSE LET d1 == [dd EXCEPT !.package_managers = Append(@, "npm")]
         IN  IF m.json # "object" THEN d1
             ELSE LET d2 == [d1 EXCEPT !.dependencies = m.deps,
                                       !.dev_dependencies = m.dev]
                  IN  IF HasLen(m.deps) /\ HasLen(m.dev)
                      THEN [d2 EXCEPT !.total_deps = m.deps.size + m.dev.size]
                      ELSE d2

\* l.strip() and not l.startswith("#")
CountedLine(l) == l \in {"pkg", "indented_comment"}

\* a reader that adds its count to the one found so far
AfterRequirementsAdds(dd, m) ==
    IF ~ m.exists \/ ~ m.readable THEN dd
    ELSE [dd EXCEPT !.package_managers = Append(@, "pip"),
                    !.total_deps = @ + Len(SelectSeq(m.lines, CountedLine))]

\* "Check requirements.txt": lines are "pkg", "blank", "comment" (starts with
\* '#') or "indented_comment" (blanks, then '#')
AfterRequirements(dd, m) ==
    IF ~ m.exists \/ ~ m.readable THEN dd
    ELSE [dd EXCEPT !.package_managers = Append(@, "pip"),
                    !.total_deps = Len(SelectSeq(m.lines, CountedLine))]

AfterGoMod(dd, exists) ==
    IF exists THEN [dd EXCEPT !.package_managers = Append(@, "go modules")] ELSE dd

AfterGemfile(dd, exists) ==
    IF exists THEN [dd EXCEPT !.package_managers = Append(@, "bundler")] ELSE dd

_analyze_dependencies(r) ==
    AfterGemfile(
        AfterGoMod(
            AfterRequirements(AfterPackageJson(DepsDefaults, r.package_json),
                              r.requirements),
            r.go_mod),
        r.gemfile)

----------------------------------------------------------------------------
(* _analyze_ci *)

\* the same entries probed in the order of their names
CI_FILES_ByName ==
    << [path |-> ".circleci/config.yml", platform |-> "CircleCI"],
       [path |-> ".github/workflows", platform |-> "GitHub Actions"],
       [path |-> ".gitlab-ci.yml", platform |-> "GitLab CI"],
       [path |-> ".travis.yml", platform |-> "Travis CI"],
       [path |-> "Jenkinsfile", platform |-> "Jenkins"],
       [path |-> "azure-pipelines.yml", platform |-> "Azure Pipelines"] >>

\* ci_files: a dict, iterated in insertion order
CI_FILES ==
    << [path |-> ".gitlab-ci.yml", platform |-> "GitLab CI"],
       [path |-> ".github/workflows", platform |-> "GitHub Actions"],
       [path |-> ".circleci/config.yml", platform |-> "CircleCI"],
       [path |-> "azure-pipelines.yml", platform |-> "Azure Pipelines"],
       [path |-> ".travis.yml", platform |-> "Travis CI"],
       [path |-> "Jenkinsfile", platform |-> "Jenkins"] >>

\* "Parse GitLab CI": the lines the regex captures after "stages:", each
\* stripped and without its "- "; nothing when the file cannot be read
GitlabStages(r) ==
    IF ".gitlab-ci.yml" \in r.ci_paths /\ r.gitlab.readable
    THEN SelectSeq(r.gitlab.stages, LAMBDA st : st # "")
    ELSE << >>

_analyze_ci(r) ==
    LET hit == SelectSeq(CI_FILES, LAMBDA c : c.path \in r.ci_paths)
    IN  [ platforms |-> [i \in 1..Len(hit) |-> hit[i].platform],
          config_files |-> [i \in 1..Len(hit) |-> hit[i].path],
          stages |-> GitlabStages(r) ]

----------------------------------------------------------------------------
(* The repositories of the model *)

NoMarks == [it |-> 0, test |-> 0, describe |-> 0, def_test |-> 0, func_test |-> 0, at_test |-> 0]

\* A file is [name, dirs (path below the root), nl (newline characters),
\* tail (text after the last newline), readable (open/read succeed),
\* statable (os.path.getsize succeeds), size (bytes), marks (occurrences of
\* the test markers in the content), sigs (framework words in the content)].
Catalogue ==
    << [ name |-> << "a", ".", "p", "y" >>,
         dirs |-> << >>, nl |-> 50, tail |-> FALSE, readable |-> TRUE,
         statable |-> TRUE, size |-> 1200,
         marks |-> [it |-> 0, test |-> 0, describe |-> 0, def_test |-> 0, func_test |-> 0, at_test |-> 0],
         sigs |-> {} ],
       [ name |-> << "a", ".", "t", "e", "s", "t", ".", "p", "y" >>,
         dirs |-> << >>, nl |-> 20, tail |-> FALSE, readable |-> TRUE,
         statable |-> TRUE, size |-> 256,
         marks |-> [it |-> 0, test |-> 2, describe |-> 0, def_test |-> 0, func_test |-> 0, at_test |-> 0],
         sigs |-> {"pytest"} ],
       [ name |-> << "R", "E", "A", "D", "M", "E", ".", "m", "d" >>,
         dirs |-> << >>, nl |-> 12, tail |-> TRUE, readable |-> TRUE,
         statable |-> TRUE, size |-> 300,
         marks |-> [it |-> 0, test |-> 0, describe |-> 0, def_test |-> 0, func_test |-> 0, at_test |-> 0],
         sigs |-> {} ],
       [ name |-> << "p", "a", "c", "k", "a", "g", "e", ".", "j", "s", "o", "n" >>,
         dirs |-> << >>, nl |-> 8, tail |-> FALSE, readable |-> TRUE,
         statable |-> TRUE, size |-> 256,
         marks |-> [it |-> 0, test |-> 0, describe |-> 0, def_test |-> 0, func_test |-> 0, at_test |-> 0],
         sigs |-> {} ],
       [ name |-> << "x", ".", "t", "e", "s", "t", ".", "j", "s" >>,
         dirs |-> << "src" >>, nl |-> 30, tail |-> FALSE, readable |-> TRUE,
         statable |-> TRUE, size |-> 2048,
         marks |-> [it |-> 3, test |-> 0, describe |-> 1, def_test |-> 0, func_test |-> 0, at_test |-> 0],
         sigs |-> {"jest"} ],
       [ name |-> << "i", "n", "d", "e", "x", ".", "j", "s" >>,
         dirs |-> << "node_modules", "lib" >>, nl |-> 40, tail |-> FALSE, readable |-> TRUE,
         statable |-> TRUE, size |-> 4096,
         marks |-> [it |-> 0, test |-> 1, describe |-> 0, def_test |-> 0, func_test |-> 0, at_test |-> 0],
         sigs |-> {} ],
       [ name |-> << "o", "u", "t", ".", "j", "s" >>,
         dirs |-> << "web", "build" >>, nl |-> 25, tail |-> FALSE, readable |-> TRUE,
         statable |-> TRUE, size |-> 5000,
         marks |-> [it |-> 0, test |-> 0, describe |-> 0, def_test |-> 0, func_test |-> 0, at_test |-> 0],
         sigs |-> {} ],
       [ name |-> << "t", "e", "s", "t", "_", "m", "o", "d", ".", "p", "y" >>,
         dirs |-> << "venv" >>, nl |-> 15, tail |-> TRUE, readable |-> TRUE,
         statable |-> TRUE, size |-> 700,
         marks |-> [it |-> 0, test |-> 0, describe |-> 0, def_test |-> 2, func_test |-> 0, at_test |-> 0],
         sigs |-> {"pytest"} ],
       [ name |-> << "M", "a", "k", "e", "f", "i", "l", "e" >>,
         dirs |-> << >>, nl |-> 5, tail |-> TRUE, readable |-> TRUE,
         statable |-> TRUE, size |-> 90,
         marks |-> [it |-> 0, test |-> 0, describe |-> 0, def_test |-> 0, func_test |-> 0, at_test |-> 0],
         sigs |-> {} ],
       [ name |-> << "b", "l", "o", "b", ".", "p", "y" >>,
         dirs |-> << "src" >>, nl |-> 60, tail |-> FALSE, readable |-> FALSE,
         statable |-> TRUE, size |-> 9000,
         marks |-> [it |-> 0, test |-> 0, describe |-> 0, def_test |-> 0, func_test |-> 0, at_test |-> 0],
         sigs |-> {} ],
       [ name |-> << "b", ".", "g", "o" >>,
         dirs |-> << "src" >>, nl |-> 50, tail |-> FALSE, readable |-> TRUE,
         statable |-> TRUE, size |-> 1200,
         marks |-> [it |-> 0, test |-> 0, describe |-> 0, def_test |-> 0, func_test |-> 0, at_test |-> 0],
         sigs |-> {} ],
       [ name |-> << "h", "e", "l", "p", "e", "r", ".", "j", "s" >>,
         dirs |-> << "src", "__tests__" >>, nl |-> 7, tail |-> FALSE, readable |-> TRUE,
         statable |-> TRUE, size |-> 512,
         marks |-> [it |-> 1, test |-> 0, describe |-> 0, def_test |-> 0, func_test |-> 0, at_test |-> 0],
         sigs |-> {} ],
       [ name |-> << "C", "o", "n", "T", "e", "s", "t", ".", "j", "a", "v", "a" >>,
         dirs |-> << >>, nl |-> 18, tail |-> FALSE, readable |-> TRUE,
         statable |-> FALSE, size |-> 640,
         marks |-> [it |-> 0, test |-> 0, describe |-> 0, def_test |-> 0, func_test |-> 0, at_test |-> 2],
         sigs |-> {} ],
       [ name |-> << "y", ".", "s", "p", "e", "c", ".", "t", "s" >>,
         dirs |-> << "dist" >>, nl |-> 9, tail |-> FALSE, readable |-> TRUE,
         statable |-> TRUE, size |-> 333,
         marks |-> [it |-> 2, test |-> 2, describe |-> 0, def_test |-> 0, func_test |-> 0, at_test |-> 0],
         sigs |-> {"mocha"} ] >>

\* the files of the catalogue at the positions in S, in os.walk order
Pick(S) ==
    LET idx == SelectSeq([i \in 1..Len(Catalogue) |-> i], LAMBDA i : i \in S)
    IN  [k \in 1..Len(idx) |-> Catalogue[idx[k]]]

Digit(k) == << "0", "1", "2", "3", "4", "5", "6", "7", "8", "9" >>[k + 1]

\* file i of a large repository: test_NN.py, a main file and a test file at
\* once; line counts, marker counts and sizes repeat, so that keys tie
BigFile(i, m) ==
    [ name |-> S_test_ \o << Digit(i \div 10), Digit(i % 10) >> \o S_py,
      dirs |-> IF i % 2 = 0 THEN << >> ELSE << "src" >>,
      nl |-> ((i * (6 + m)) % 5) + 1, tail |-> FALSE, readable |-> TRUE,
      statable |-> TRUE, size |-> ((i * (4 + m)) % 7) * 1000 + 100,
      marks |-> [NoMarks EXCEPT !.def_test = ((i * (2 + m)) % 4) + 1],
      sigs |-> {} ]

MsgFix == << "f", "i", "x", " ", "b", "u", "g" >>
MsgRefactor == << "R", "e", "f", "a", "c", "t", "o", "r", " ", "a", "p", "i" >>
MsgUpdate == << "U", "P", "D", "A", "T", "E", " ", "d", "e", "p", "s" >>
MsgRemove == << "r", "e", "m", "o", "v", "e", "d", " ", "x" >>

Day(d) == [set |-> TRUE, parses |-> TRUE, day |-> d]
BadDay == [set |-> TRUE, parses |-> FALSE, day |-> 0]

\* one line of `git log --pretty=format:%H|%ai|%s|%an`
LogLine(i, date, message, author) ==
    [ fields |-> 4,
      hash |-> << "c", "0", "f", "f", "e" >>
                 \o << Digit((i \div 100) % 10), Digit((i \div 10) % 10), Digit(i % 10) >>,
      date |-> date, message |-> message, author |-> author ]

\* a line with fewer than four fields
ShortLine == [fields |-> 2, hash |-> << >>, date |-> NoDate, message |-> << >>, author |-> ""]

\* three commits across ten days, newest first
SmallLog ==
    << LogLine(3, Day(9), MsgRefactor, "alice"),
       LogLine(2, Day(5), MsgFix, "bob"),
       LogLine(1, Day(0), MsgUpdate, "alice") >>

\* n commits, one a day, the newest on day 9
LongLog(n) ==
    [ i \in 1..n |->
        LogLine(n + 1 - i, Day(10 - i),
                IF i % 3 = 0 THEN MsgRefactor ELSE IF i % 3 = 1 THEN MsgFix ELSE MsgRemove,
                IF i % 2 = 0 THEN "alice" ELSE "bob") ]

Ok(out) == [status |-> "ok", out |-> out]

GitOf(n, log) ==
    [ count |-> Ok([parses |-> TRUE, n |-> n]),
      branch |-> Ok("main "),
      branches |-> Ok(<< "* main", "  dev", "  " >>),
      contributors |-> Ok(<< "alice", " bob", "alice", "bob", "" >>),
      log |-> Ok(log) ]

NoManifest == [exists |-> FALSE, readable |-> FALSE, json |-> "invalid",
               deps |-> [kind |-> "mapping", size |-> 0],
               dev |-> [kind |-> "mapping", size |-> 0]]

NoRequirements == [exists |-> FALSE, readable |-> FALSE, lines |-> << >>]

\* the scenario repository: three commits across ten days, a.py (50 lines),
\* a.test.py (20 lines, two `test(` declarations)
BaseRepo ==
    [ name |-> "trailwaze", has_git |-> TRUE, git |-> GitOf(3, SmallLog),
      files |-> Pick({1, 2}),
      package_json |-> NoManifest, requirements |-> NoRequirements,
      go_mod |-> FALSE, gemfile |-> FALSE,
      ci_paths |-> {}, gitlab |-> [readable |-> TRUE, stages |-> << >>] ]

\* no .git entry; test lines and no source lines
NoGitRepo ==
    [BaseRepo EXCEPT !.name = "plain", !.has_git = FALSE, !.files = Pick({3, 5})]

\* one commit made today; more test lines than source lines
TestHeavyRepo ==
    [BaseRepo EXCEPT !.name = "heavy",
                     !.git = GitOf(1, << LogLine(1, Day(NowStart), MsgFix, "bob") >>),
                     !.files = Pick({5, 12})]

\* the repositories of the whole-pipeline specification
Repos == {BaseRepo, NoGitRepo, TestHeavyRepo}

\* every combination of outcomes of the five git queries
STATUSES == {"ok", "nonzero", "timeout"}

WithStatus(g, v) ==
    [q \in DOMAIN g |-> [g[q] EXCEPT !.status = v[q]]]

StatusRepos ==
    { [BaseRepo EXCEPT !.git = WithStatus(GitOf(3, SmallLog), v)] :
        v \in [{"count", "branch", "branches", "contributors", "log"} -> STATUSES] }

\* histories of other shapes: no commit, exactly the cap, more than the cap,
\* malformed lines, a date that does not parse, a date in the future, and a
\* commit count that is not a number
HistoryRepos ==
    { [BaseRepo EXCEPT !.git = GitOf(0, << >>)],
      [BaseRepo EXCEPT !.git = GitOf(COMMIT_HISTORY_CAP, LongLog(COMMIT_HISTORY_CAP))],
      [BaseRepo EXCEPT !.git = GitOf(BigLog, LongLog(BigLog))],
      [BaseRepo EXCEPT !.git = GitOf(3, << ShortLine >> \o SmallLog \o << ShortLine >>)],
      [BaseRepo EXCEPT !.git = GitOf(1, << ShortLine >>)],
      [BaseRepo EXCEPT !.git = GitOf(2, << LogLine(2, Day(8), MsgUpdate, "bob"),
                                           LogLine(1, BadDay, MsgFix, "bob") >>)],
      [BaseRepo EXCEPT !.git = GitOf(1, << LogLine(1, Day(NowStart + 3), MsgFix, "bob") >>)],
      [BaseRepo EXCEPT !.git.count = Ok([parses |-> FALSE, n |-> 0])] }

\* every choice of at most MaxPick files of the catalogue
TreeRepos ==
    { [BaseRepo EXCEPT !.has_git = FALSE, !.files = Pick(S)] :
        S \in {T \in SUBSET (1..Len(Catalogue)) : Cardinality(T) <= MaxPick} }

\* trees with more candidates than any ranking keeps
BigRepos ==
    { [BaseRepo EXCEPT !.git = GitOf(BigLog, LongLog(BigLog)),
                       !.files = [i \in 1..BigFiles |-> BigFile(i, m)]] : m \in 1..2 }

Mapping(n) == [kind |-> "mapping", size |-> n]

\* package.json files: absent; present but unreadable; not JSON; JSON whose
\* top-level value is a list; an object whose "dependencies" and
\* "devDependencies" are mappings, a number or a list
PackageJsons ==
    { NoManifest,
      [NoManifest EXCEPT !.exists = TRUE],
      [NoManifest EXCEPT !.exists = TRUE, !.readable = TRUE],
      [NoManifest EXCEPT !.exists = TRUE, !.readable = TRUE, !.json = "other"] }
    \cup
    { [exists |-> TRUE, readable |-> TRUE, json |-> "object", deps |-> d, dev |-> v] :
        d \in {Mapping(5), [kind |-> "number", size |-> 0], [kind |-> "list", size |-> 3]},
        v \in {Mapping(0), Mapping(2), [kind |-> "number", size |-> 0]} }

\* requirements.txt files: absent; present but unreadable; five lines
Requirements ==
    { NoRequirements,
      [NoRequirements EXCEPT !.exists = TRUE],
      [exists |-> TRUE, readable |-> TRUE,
       lines |-> << "pkg", "comment", "blank", "indented_comment", "pkg" >>] }

\* every combination of the four manifests at the root
DepsRepos ==
    { [BaseRepo EXCEPT !.has_git = FALSE, !.package_json = pj, !.requirements = rq,
                       !.go_mod = gm, !.gemfile = gf] :
        pj \in PackageJsons, rq \in Requirements, gm \in BOOLEAN, gf \in BOOLEAN }

CI_PATHS ==
    {".gitlab-ci.yml", ".github/workflows", ".circleci/config.yml",
     "azure-pipelines.yml", ".travis.yml", "Jenkinsfile"}

\* .gitlab-ci.yml files: unreadable; without a stages block; with one
Gitlabs ==
    { [readable |-> FALSE, stages |-> << "build" >>],
      [readable |-> TRUE, stages |-> << >>],
      [readable |-> TRUE, stages |-> << "build", "", "test" >>] }

\* every set of the known CI paths (gitlab is what .gitlab-ci.yml holds when
\* it is among them)
CiRepos ==
    { [BaseRepo EXCEPT !.has_git = FALSE, !.ci_paths = S, !.gitlab = g] :
        S \in SUBSET CI_PATHS, g \in Gitlabs }

\* the repositories of the single-run specification
PassRepos ==
    StatusRepos \cup HistoryRepos \cup TreeRepos \cup BigRepos \cup DepsRepos \cup CiRepos

----------------------------------------------------------------------------
(* analyze() and generate_dashboard() *)

Analyzers == {"a1", "a2"}

SECTIONS ==
    {"repo_name", "repo_path", "scanned_at", "git", "code", "tests",
     "dependencies", "files", "ci", "quality"}

\* {} : the empty dict
EmptyDict == << >>

\* one more entry of the dict display
Put(d, k, v) == (k :> v) @@ d

\* a slip that publishes every section as soon as its pass returns
SelfDataEager(old, display) == display

\* an analyze() that empties self.data before it runs the passes
SelfDataCleared(old, display) ==
    IF DOMAIN display = SECTIONS THEN display ELSE EmptyDict

\* self.data while and after the dict display of analyze() is evaluated:
\* `self.data = {...}` assigns once, after the last entry has been computed
SelfData(old, display) == IF DOMAIN display = SECTIONS THEN display ELSE old

TotalCalls == calls["a1"] + calls["a2"]

NoneRunning == \A a \in Analyzers : pc[a] = "idle"

InitWith(family) ==
    /\ repo \in family
    /\ now = NowStart
    /\ data = [a \in Analyzers |-> EmptyDict]
    /\ pc = [a \in Analyzers |-> "idle"]
    /\ rec = [a \in Analyzers |-> EmptyDict]
    /\ git_data = [a \in Analyzers |-> GitDefaults]
    /\ issued = [a \in Analyzers |-> << >>]
    /\ passes = [a \in Analyzers |-> << >>]
    /\ cov_in = [a \in Analyzers |-> CoverageInputs(EmptyDict)]
    /\ calls = [a \in Analyzers |-> 0]
    /\ ret = [a \in Analyzers |-> EmptyDict]
    /\ ran_on = [a \in Analyzers |-> [repo |-> NoGitRepo, now |-> 0]]
    /\ server = [analyzer |-> "none", data |-> EmptyDict, pc |-> "idle"]

\* analyze(), up to the first pass: repo_name, repo_path and scanned_at
BeginCall(a) ==
    /\ pc' = [pc EXCEPT ![a] = "git"]
    /\ rec' = [rec EXCEPT ![a] =
                 Put(Put(Put(EmptyDict, "repo_name", repo.name),
                         "repo_path", repo.name), "scanned_at", now)]
    /\ calls' = [calls EXCEPT ![a] = @ + 1]
    /\ issued' = [issued EXCEPT ![a] = << >>]
    /\ passes' = [passes EXCEPT ![a] = << >>]
    /\ data' = [data EXCEPT ![a] = SelfData(@, rec'[a])]
    /\ UNCHANGED << repo, now, git_data, cov_in, ret, ran_on >>

\* a caller invokes analyzer.analyze() on an analyzer it holds
Analyze(a, limit) ==
    /\ NoneRunning /\ server.pc # "analyzing"
    /\ TotalCalls < limit
    /\ BeginCall(a)
    /\ UNCHANGED server

\* generate_dashboard(): a new RepositoryAnalyzer, then analyze() on it
GenerateDashboard(a, limit) ==
    /\ NoneRunning /\ server.pc # "analyzing"
    /\ TotalCalls < limit
    /\ calls[a] = 0
    /\ BeginCall(a)
    /\ server' = [server EXCEPT !.analyzer = a, !.pc = "analyzing"]

\* the common part of a pass that adds section k with value v
PassDone(a, k, v, next) ==
    /\ rec' = [rec EXCEPT ![a] = Put(@, k, v)]
    /\ data' = [data EXCEPT ![a] = SelfData(@, rec'[a])]
    /\ pc' = [pc EXCEPT ![a] = next]

\* _analyze_git, up to the first query: the defaults and the .git check
GitStart(a) ==
    /\ pc[a] = "git"
    /\ passes' = [passes EXCEPT ![a] = Append(@, "git")]
    /\ git_data' = [git_data EXCEPT ![a] = GitDefaults]
    /\ IF GitDirExists(repo)
       THEN /\ pc' = [pc EXCEPT ![a] = "query"]
            /\ UNCHANGED << rec, data >>
       ELSE PassDone(a, "git", GitDefaults, "code")
    /\ UNCHANGED << repo, now, issued, cov_in, calls, ret, ran_on, server >>

\* a pass that issues a query a second time when it raised, and gives up
\* only when it raises again
GitQueryRetry(a) ==
    /\ pc[a] = "query"
    /\ LET n == Cardinality({issued[a][i] : i \in 1..Len(issued[a])})
           last == IF issued[a] = << >> THEN "count" ELSE issued[a][Len(issued[a])]
           again == /\ issued[a] # << >> /\ Len(issued[a]) = n
                    /\ QueryAborts(last, repo.git[last])
           q == IF again THEN last ELSE GIT_QUERIES[n + 1]
           res == repo.git[q]
           g == IF QueryAborts(q, res) THEN git_data[a]
                ELSE AfterQuery(q, git_data[a], res)
       IN  /\ issued' = [issued EXCEPT ![a] = Append(@, q)]
           /\ git_data' = [git_data EXCEPT ![a] = g]
           /\ IF (QueryAborts(q, res) /\ again)
                 \/ (~ QueryAborts(q, res) /\ q = GIT_QUERIES[Len(GIT_QUERIES)])
              THEN PassDone(a, "git", g, "code")
              ELSE UNCHANGED << rec, data, pc >>
    /\ UNCHANGED << repo, now, passes, cov_in, calls, ret, ran_on, server >>

\* the next subprocess.run of _analyze_git and the statements that use its
\* result; an exception leaves the try block and the pass returns git_data
GitQuery(a) ==
    /\ pc[a] = "query"
    /\ LET q == GIT_QUERIES[Len(issued[a]) + 1]
           res == repo.git[q]
           g == IF QueryAborts(q, res) THEN GitDataAfterException(git_data[a])
                ELSE AfterQuery(q, git_data[a], res)
       IN  /\ issued' = [issued EXCEPT ![a] = Append(@, q)]
           /\ git_data' = [git_data EXCEPT ![a] = g]
           /\ IF QueryAborts(q, res) \/ Len(issued[a]) + 1 = Len(GIT_QUERIES)
              THEN PassDone(a, "git", g, "code")
              ELSE UNCHANGED << rec, data, pc >>
    /\ UNCHANGED << repo, now, passes, cov_in, calls, ret, ran_on, server >>

AnalyzeCode(a) ==
    /\ pc[a] = "code"
    /\ passes' = [passes EXCEPT ![a] = Append(@, "code")]
    /\ PassDone(a, "code", _analyze_code(repo), "tests")
    /\ UNCHANGED << repo, now, git_data, issued, cov_in, calls, ret, ran_on, server >>

AnalyzeTests(a) ==
    /\ pc[a] = "tests"
    /\ passes' = [passes EXCEPT ![a] = Append(@, "tests")]
    /\ cov_in' = [cov_in EXCEPT ![a] = CoverageInputs(data[a])]
    /\ PassDone(a, "tests", _analyze_tests(repo, data[a]), "dependencies")
    /\ UNCHANGED << repo, now, git_data, issued, calls, ret, ran_on, server >>

AnalyzeDependencies(a) ==
    /\ pc[a] = "dependencies"
    /\ passes' = [passes EXCEPT ![a] = Append(@, "dependencies")]
    /\ PassDone(a, "dependencies", _analyze_dependencies(repo), "files")
    /\ UNCHANGED << repo, now, git_data, issued, cov_in, calls, ret, ran_on, server >>

AnalyzeFiles(a) ==
    /\ pc[a] = "files"
    /\ passes' = [passes EXCEPT ![a] = Append(@, "files")]
    /\ PassDone(a, "files", _analyze_files(repo), "ci")
    /\ UNCHANGED << repo, now, git_data, issued, cov_in, calls, ret, ran_on, server >>

AnalyzeCi(a) ==
    /\ pc[a] = "ci"
    /\ passes' = [passes EXCEPT ![a] = Append(@, "ci")]
    /\ PassDone(a, "ci", _analyze_ci(repo), "quality")
    /\ UNCHANGED << repo, now, git_data, issued, cov_in, calls, ret, ran_on, server >>

\* the quality pass completes the dict display; analyze() then assigns
\* self.data and returns it
CalculateQuality(a) ==
    /\ pc[a] = "quality"
    /\ passes' = [passes EXCEPT ![a] = Append(@, "quality")]
    /\ PassDone(a, "quality", _calculate_quality_metrics(data[a], now), "idle")
    /\ ret' = [ret EXCEPT ![a] = rec'[a]]
    /\ ran_on' = [ran_on EXCEPT ![a] = [repo |-> repo, now |-> now]]
    /\ UNCHANGED << repo, now, git_data, issued, cov_in, calls, server >>

\* generate_dashboard() after analyze() returned: self.data = ...; rendering
RenderHtml ==
    /\ server.pc = "analyzing"
    /\ pc[server.analyzer] = "idle"
    /\ server' = [server EXCEPT !.data = ret[server.analyzer], !.pc = "rendered"]
    /\ UNCHANGED << repo, now, data, pc, rec, git_data, issued, passes, cov_in,
                    calls, ret, ran_on >>

\* the working tree, the history or the git tool's answers change between runs
RepoChanges(family) ==
    /\ NoneRunning
    /\ repo' \in family \ {repo}
    /\ UNCHANGED << now, data, pc, rec, git_data, issued, passes, cov_in,
                    calls, ret, ran_on, server >>

\* a day passes (the clock counts days: one run reads one value)
Tick ==
    /\ NoneRunning
    /\ now < NowStart + MaxTicks
    /\ now' = now + 1
    /\ UNCHANGED << repo, data, pc, rec, git_data, issued, passes, cov_in,
                    calls, ret, ran_on, server >>

Step(a) ==
    \/ GitStart(a) \/ GitQuery(a) \/ AnalyzeCode(a) \/ AnalyzeTests(a)
    \/ AnalyzeDependencies(a) \/ AnalyzeFiles(a) \/ AnalyzeCi(a)
    \/ CalculateQuality(a)

Init == InitWith(Repos)

Next ==
    \/ \E a \in Analyzers : Analyze(a, MaxCalls)
    \/ \E a \in Analyzers : GenerateDashboard(a, MaxCalls)
    \/ \E a \in Analyzers : Step(a)
    \/ RenderHtml
    \/ RepoChanges(Repos)
    \/ Tick

Spec == Init /\ [][Next]_vars

\* one analyzer, run repeatedly on one unchanging repository
InitPasses == InitWith(PassRepos)

NextPasses ==
    \/ Analyze("a1", MaxRuns)
    \/ Step("a1")

SpecPasses == InitPasses /\ [][NextPasses]_vars

\* one analyzer, run repeatedly while the repository and the clock change
\* between its runs
NextReuse ==
    \/ Analyze("a1", MaxRuns)
    \/ Step("a1")
    \/ RepoChanges(Repos)
    \/ Tick

SpecReuse == Init /\ [][NextReuse]_vars

----------------------------------------------------------------------------
(* Properties *)

\* analyzer a has returned from analyze() and is not inside another call
Returned(a) == calls[a] > 0 /\ pc[a] = "idle"

\* the first-commit date of a returned record names a day
DatedGit(g) == g.first_commit_date.set /\ g.first_commit_date.parses

\* C1: in every returned record the quality section is derived from the git
\* section of the same record: with total_commits = N > 0 and a first commit
\* D days before now, project_age_days = max(1, D) and commits_per_day =
\* N / max(1, D) rounded to 2 decimals.
C1_QualityFromSameRecord ==
    \A a \in Analyzers :
        (Returned(a) /\ ret[a].git.total_commits > 0 /\ DatedGit(ret[a].git)) =>
            LET age == Max(1, ran_on[a].now - ret[a].git.first_commit_date.day)
            IN  /\ ret[a].quality.project_age_days = age
                /\ ret[a].quality.commits_per_day
                     = RoundHalfEven(ret[a].git.total_commits * 100, age)

\* C2: in every returned record tests.test_coverage equals
\* min(100, round(100 * test_lines / source_lines)) for the 'tests' and
\* 'source' buckets of code.loc_breakdown of the same record.
C2_CoverageFromSameRecord ==
    \A a \in Analyzers :
        (Returned(a) /\ ret[a].code.loc_breakdown.source > 0) =>
            ret[a].tests.test_coverage
              = Min(100, RoundHalfEven(100 * ret[a].code.loc_breakdown.tests,
                                       ret[a].code.loc_breakdown.source))

\* a record without its scan timestamp
WithoutScanTime(r) == [k \in (DOMAIN r) \ {"scanned_at"} |-> r[k]]

\* C3: the record a call returns depends only on the repository and the clock
\* at that call: two analyzers whose last calls read the same repository at
\* the same time returned the same record (apart from scanned_at), whatever
\* either had run before.
C3_RecordBuiltFresh ==
    \A a, b \in Analyzers :
        (Returned(a) /\ Returned(b) /\ ran_on[a] = ran_on[b]) =>
            WithoutScanTime(ret[a]) = WithoutScanTime(ret[b])

\* C4: analyzer.data is either empty or holds all ten sections, in every
\* state, and the server renders only a complete record.
C4_NoPartialRecord ==
    /\ \A a \in Analyzers : DOMAIN data[a] \in {{}, SECTIONS}
    /\ DOMAIN server.data \in {{}, SECTIONS}
    /\ server.pc = "rendered" => DOMAIN server.data = SECTIONS

\* generate_dashboard is waiting for analyze(), whose dict display holds nine
\* of the ten sections while the analyzer's data is still empty
C4_Witness ==
    \E a \in Analyzers :
        /\ server.pc = "analyzing" /\ server.analyzer = a
        /\ pc[a] = "quality"
        /\ DOMAIN rec[a] = SECTIONS \ {"quality"}
        /\ DOMAIN data[a] = {}

\* the git pass of the current or last call of a has returned its section
GitPassDone(a) == HasKey(rec[a], "git")

\* query q of the repository fails: timeout, non-zero exit or parse failure
C5_Fails(r, q) ==
    \/ r.git[q].status # "ok"
    \/ q = "count" /\ ~ r.git[q].out.parses

\* git_data with the field of every query that did not fail populated
C5_AllButFailed(r) ==
    LET use(q, g) == IF C5_Fails(r, q) THEN g ELSE AfterQuery(q, g, r.git[q])
    IN  use("log", use("contributors", use("branches", use("branch",
            use("count", GitDefaults)))))

\* C5: when one of the five queries fails, only its field stays at the
\* default: all five queries are issued and every other field is populated.
C5_FailedQueryIsolated ==
    \A a \in Analyzers :
        ( /\ GitPassDone(a) /\ GitDirExists(repo)
          /\ Cardinality({i \in 1..Len(GIT_QUERIES) : C5_Fails(repo, GIT_QUERIES[i])}) = 1 )
        => /\ issued[a] = GIT_QUERIES
           /\ rec[a].git = C5_AllButFailed(repo)

\* C6: without a .git entry the VCS pass returns the default summary and
\* issues no query.
C6_NoGitDefaultSummary ==
    \A a \in Analyzers :
        (GitPassDone(a) /\ ~ repo.has_git) =>
            /\ rec[a].git.total_commits = 0
            /\ rec[a].git.branches = << >>
            /\ rec[a].git.contributors = << >>
            /\ rec[a].git.commit_history = << >>
            /\ ~ rec[a].git.first_commit_date.set
            /\ ~ rec[a].git.last_commit_date.set
            /\ issued[a] = << >>

\* the VCS pass has returned for a repository without .git and the code pass
\* is next
C6_Witness ==
    \E a \in Analyzers :
        pc[a] = "code" /\ ~ repo.has_git /\ GitPassDone(a) /\ passes[a] = << "git" >>

\* the files that are below no directory named in `names`
C7_Outside(files, names) ==
    SelectSeq(files, LAMBDA f : \A i \in 1..Len(f.dirs) : f.dirs[i] \notin names)

\* the tests section without the coverage figure (which is not a count of files)
C7_TestListing(t) ==
    [total_tests |-> t.total_tests, test_files |-> t.test_files,
     test_frameworks |-> t.test_frameworks]

\* the three walked sections of a record are those of the tree `files`
C7_SectionsOf(r, codeFiles, testFiles, fileFiles) ==
    /\ r.code = _analyze_code([repo EXCEPT !.files = codeFiles])
    /\ C7_TestListing(r.tests)
         = C7_TestListing(_analyze_tests([repo EXCEPT !.files = testFiles], EmptyDict))
    /\ r.files = _analyze_files([repo EXCEPT !.files = fileFiles])

C7_AnyDenyList ==
    {"node_modules", ".git", "coverage", "build", "dist", "venv", ".venv",
     ".next", "out", "public", "__pycache__", ".pytest_cache", ".env.local"}

\* C7 as claimed: a file below a directory named on any deny-list appears in
\* no count and no listing of the code, tests and files sections: the three
\* sections are those of the tree without such files.
C7_PrunedEverywhere ==
    \A a \in Analyzers :
        Returned(a) =>
            LET clean == C7_Outside(repo.files, C7_AnyDenyList)
            IN  C7_SectionsOf(ret[a], clean, clean, clean)

\* C7 as amended: each walker leaves out the files below the directories of
\* its own list (code: thirteen names; tests: node_modules, .git, coverage;
\* files: those three, build and dist); a file below node_modules, .git or
\* coverage therefore appears in none of the three sections.
C7_PrunedPerWalker ==
    \A a \in Analyzers :
        Returned(a) =>
            /\ C7_SectionsOf(ret[a],
                   C7_Outside(repo.files, C7_AnyDenyList),
                   C7_Outside(repo.files, {"node_modules", ".git", "coverage"}),
                   C7_Outside(repo.files,
                              {"node_modules", ".git", "coverage", "build", "dist"}))
            /\ \A i \in 1..Len(repo.files) :
                 (\E k \in 1..Len(repo.files[i].dirs) :
                     repo.files[i].dirs[k] \in {"node_modules", ".git", "coverage"})
                 => LET p == RelPath(repo.files[i])
                    IN  /\ \A j \in 1..Len(ret[a].code.main_files) :
                               ret[a].code.main_files[j].path # p
                        /\ \A j \in 1..Len(ret[a].tests.test_files) :
                               ret[a].tests.test_files[j].path # p
                        /\ \A j \in 1..Len(ret[a].files.largest_files) :
                               ret[a].files.largest_files[j].path # p

\* a run has returned on a tree with a test file below node_modules and a
\* file below dist
C7_Witness ==
    \E a \in Analyzers :
        /\ Returned(a)
        /\ \E i, j \in 1..Len(repo.files) :
              /\ repo.files[i].dirs # << >> /\ repo.files[i].dirs[1] = "node_modules"
              /\ TestCount(repo.files[i]) > 0
              /\ repo.files[j].dirs # << >> /\ repo.files[j].dirs[1] = "dist"

\* the code pass of the current or last call of a has returned its section
CodePassDone(a) == HasKey(rec[a], "code")

\* the files the code scan reads: outside the pruned directories, readable
C8_Scanned(r) ==
    SelectSeq(C7_Outside(r.files, C7_AnyDenyList), LAMBDA f : f.readable)

C8_TestSuffix(file) ==
    \E stem \in {S_dot_test, S_dot_spec} : \E e \in {S_js, S_ts} : EndsWith(file, stem \o e)

\* the bucket of a file name by the precedence test > docs > config > source
C8_Bucket(file) ==
    IF C8_TestSuffix(file) \/ EndsWith(file, S_dot_test \o S_py) THEN "tests"
    ELSE IF EndsWith(file, S_md) THEN "docs"
    ELSE IF \E e \in {S_json, S_yaml, S_yml, S_toml, S_xml} : EndsWith(file, e) THEN "config"
    ELSE IF \E e \in {S_js, S_ts, S_tsx, S_jsx, S_py, S_java, S_go, S_rs} : EndsWith(file, e)
         THEN "source"
    ELSE "none"

C8_LinesIn(r, bucket) ==
    LET fs == SelectSeq(C8_Scanned(r), LAMBDA f : C8_Bucket(f.name) = bucket)
    IN  SumInts([i \in 1..Len(fs) |-> ReadLines(fs[i])])

C8_LinesScanned(r) ==
    SumInts([i \in 1..Len(C8_Scanned(r)) |-> ReadLines(C8_Scanned(r)[i])])

\* C8: every scanned file adds its lines to the one bucket its name selects
\* by the precedence test > docs > config > source, or to none: each bucket
\* is the sum over the files of that bucket, and the four buckets together
\* count no line twice.
C8_OneBucketPerFile ==
    \A a \in Analyzers :
        CodePassDone(a) =>
            LET loc == rec[a].code.loc_breakdown
            IN  /\ loc.tests = C8_LinesIn(repo, "tests")
                /\ loc.docs = C8_LinesIn(repo, "docs")
                /\ loc.config = C8_LinesIn(repo, "config")
                /\ loc.source = C8_LinesIn(repo, "source")
                /\ loc.tests + loc.docs + loc.config + loc.source
                     = C8_LinesScanned(repo) - C8_LinesIn(repo, "none")

\* the code pass has scanned a test file whose name also ends in a source
\* suffix, a source file and a file of no bucket
C8_Witness ==
    \E a \in Analyzers :
        /\ CodePassDone(a)
        /\ rec[a].code.loc_breakdown.tests > 0
        /\ \E i, j \in 1..Len(C8_Scanned(repo)) :
              /\ C8_Bucket(C8_Scanned(repo)[i].name) = "tests"
              /\ EndsWith(C8_Scanned(repo)[i].name, S_js)
              /\ C8_Bucket(C8_Scanned(repo)[j].name) = "none"

\* the tests pass of the current or last call of a has returned its section
TestsPassDone(a) == HasKey(rec[a], "tests")

C10_Pos(r, p) == CHOOSE i \in 1..Len(r.files) : RelPath(r.files[i]) = p

\* `rank` (a list of [path, key]) is the ranking of the candidates `cand`
\* (in discovery order) with at most `cap` entries: descending by key, equal
\* keys in discovery order, and no candidate left out that should be in
C10_IsRanking(r, rank, cand, cap) ==
    /\ Len(rank) <= cap
    /\ Len(rank) = Min(cap, Len(cand))
    /\ \A i \in 1..Len(rank) : \E j \in 1..Len(cand) : cand[j] = rank[i]
    /\ \A i, j \in 1..Len(rank) :
          i < j => /\ rank[i].key >= rank[j].key
                   /\ rank[i].key = rank[j].key
                        => C10_Pos(r, rank[i].path) < C10_Pos(r, rank[j].path)
    /\ \A j \in 1..Len(cand) :
          (\A i \in 1..Len(rank) : rank[i] # cand[j]) =>
              \A i \in 1..Len(rank) :
                  /\ rank[i].key >= cand[j].key
                  /\ rank[i].key = cand[j].key
                       => C10_Pos(r, rank[i].path) < C10_Pos(r, cand[j].path)

C10_MainCandidates(r) ==
    LET fs == SelectSeq(Walk(r.files, CODE_DENY),
                        LAMBDA f : f.readable /\ IsMainFile(f.name))
    IN  [i \in 1..Len(fs) |-> [path |-> RelPath(fs[i]), key |-> ReadLines(fs[i])]]

C10_TestCandidates(r) ==
    LET fs == SelectSeq(Walk(r.files, TESTS_DENY), CountsAsTestFile)
    IN  [i \in 1..Len(fs) |-> [path |-> RelPath(fs[i]), key |-> TestCount(fs[i])]]

C10_SizeCandidates(r) ==
    LET fs == SelectSeq(Walk(r.files, FILES_DENY), Sized)
    IN  [i \in 1..Len(fs) |-> [path |-> RelPath(fs[i]), key |-> SizeKb(fs[i])]]

\* the main_files, test_files and largest_files of a record as [path, key]
C10_MainRank(d) ==
    [i \in 1..Len(d.code.main_files) |->
        [path |-> d.code.main_files[i].path, key |-> d.code.main_files[i].lines]]

C10_TestRank(d) ==
    [i \in 1..Len(d.tests.test_files) |->
        [path |-> d.tests.test_files[i].path, key |-> d.tests.test_files[i].tests]]

C10_SizeRank(d) ==
    [i \in 1..Len(d.files.largest_files) |->
        [path |-> d.files.largest_files[i].path,
         key |-> d.files.largest_files[i].size_kb]]

\* the lines of the log that have four fields, in log order (newest first)
C10_LogLines(r) == SelectSeq(r.git.log.out, LAMBDA l : l.fields >= 4)

\* C10: main_files (20, by lines), test_files (15, by tests), largest_files
\* (15, by size_kb) never exceed their cap, are sorted descending, keep
\* discovery order among equal keys and hold the greatest keys of all
\* candidates; commit_history has at most 100 entries, in log order.
C10_CappedRankings ==
    \A a \in Analyzers :
        Returned(a) =>
            /\ C10_IsRanking(repo, C10_MainRank(ret[a]), C10_MainCandidates(repo), 20)
            /\ C10_IsRanking(repo, C10_TestRank(ret[a]), C10_TestCandidates(repo), 15)
            /\ C10_IsRanking(repo, C10_SizeRank(ret[a]), C10_SizeCandidates(repo), 15)
            /\ Len(ret[a].git.commit_history) <= 100
            /\ ( "log" \in {issued[a][i] : i \in 1..Len(issued[a])}
                 /\ repo.git.log.status = "ok" )
               => /\ Len(ret[a].git.commit_history) = Min(100, Len(C10_LogLines(repo)))
                  /\ \A i \in 1..Len(ret[a].git.commit_history) :
                        /\ ret[a].git.commit_history[i].date = C10_LogLines(repo)[i].date
                        /\ ret[a].git.commit_history[i].message
                             = C10_LogLines(repo)[i].message
                        /\ ret[a].git.commit_history[i].hash
                             = SubSeq(C10_LogLines(repo)[i].hash, 1, 7)

\* a run has returned with all four lists at their cap, candidates left out,
\* and equal keys inside the main-file ranking
C10_Witness ==
    \E a \in Analyzers :
        /\ Returned(a)
        /\ Len(ret[a].code.main_files) = 20 /\ Len(C10_MainCandidates(repo)) > 20
        /\ Len(ret[a].tests.test_files) = 15 /\ Len(C10_TestCandidates(repo)) > 15
        /\ Len(ret[a].files.largest_files) = 15 /\ Len(C10_SizeCandidates(repo)) > 15
        /\ Len(ret[a].git.commit_history) = 100 /\ Len(C10_LogLines(repo)) > 100
        /\ ret[a].code.main_files[1].lines = ret[a].code.main_files[2].lines

\* C11: in every returned record project_age_days >= 1 (also when the first
\* commit was made today or is dated in the future), and commits_per_day is
\* 0 whenever total_commits of the record is 0.
C11_AgeAndCadenceFloor ==
    \A a \in Analyzers :
        Returned(a) =>
            /\ ret[a].quality.project_age_days >= 1
            /\ ret[a].git.total_commits = 0 => ret[a].quality.commits_per_day = 0

\* the dependency pass of the current or last call of a has returned
DepsPassDone(a) == HasKey(rec[a], "dependencies")

\* parsing package.json fails: unreadable, not JSON, a top-level value that
\* is not an object, or a dependencies/devDependencies value that is not a
\* mapping
C12_PackageJsonFails(m) ==
    /\ m.exists
    /\ \/ ~ m.readable
       \/ m.json # "object"
       \/ m.deps.kind # "mapping"
       \/ m.dev.kind # "mapping"

\* reading requirements.txt fails
C12_RequirementsFails(m) == m.exists /\ ~ m.readable

\* the repository without the manifests whose parsing fails
C12_WithoutFailed(r) ==
    [r EXCEPT !.package_json = IF C12_PackageJsonFails(@) THEN NoManifest ELSE @,
              !.requirements = IF C12_RequirementsFails(@) THEN NoRequirements ELSE @]

\* C12: a manifest whose parsing fails at any step leaves the dependency
\* summary exactly as if that manifest were absent: its package manager is
\* not listed and dependencies, dev_dependencies and total_deps are unchanged
\* by it.
C12_MalformedManifestAbsent ==
    \A a \in Analyzers :
        DepsPassDone(a) =>
            rec[a].dependencies = _analyze_dependencies(C12_WithoutFailed(repo))

\* C13: refactoring_ratio is the percentage (rounded to 1 decimal, here in
\* tenths of a percent) of the entries of commit_history of the same record
\* whose subject contains a refactor keyword, over the number of those
\* entries; it lies in [0, 100].
C13_RatioOverRetained ==
    \A a \in Analyzers :
        Returned(a) =>
            LET history == ret[a].git.commit_history
                hits == Len(SelectSeq(history, IsRefactor))
            IN  /\ ret[a].quality.refactoring_ratio \in 0..1000
                /\ ret[a].quality.refactoring_ratio
                     = IF history = << >> THEN 0
                       ELSE RoundHalfEven(hits * 1000, Len(history))

\* C14: when the first-commit timestamp the quality derivation reads cannot
\* be parsed, the derivation leaves project_age_days at 1 and commits_per_day
\* at 0, whatever total_commits is, and still computes refactoring_ratio.
C14_ParseFailureDefaults ==
    [][ \A a \in Analyzers :
          ( /\ pc[a] = "quality" /\ pc'[a] = "idle"
            /\ HasKey(data[a], "git")
            /\ data[a].git.first_commit_date.set
            /\ ~ data[a].git.first_commit_date.parses )
          => /\ rec'[a].quality.project_age_days = 1
             /\ rec'[a].quality.commits_per_day = 0
             /\ rec'[a].quality.refactoring_ratio = RefactoringRatio(data[a].git) ]_vars

\* the CI pass of the current or last call of a has returned its section
CiPassDone(a) == HasKey(rec[a], "ci")

\* the six known paths in the order the pass probes them
C15_ProbeOrder ==
    << ".gitlab-ci.yml", ".github/workflows", ".circleci/config.yml",
       "azure-pipelines.yml", ".travis.yml", "Jenkinsfile" >>

C15_Rank(path) == CHOOSE i \in 1..Len(C15_ProbeOrder) : C15_ProbeOrder[i] = path

C15_Label(path) ==
    CASE path = ".gitlab-ci.yml" -> "GitLab CI"
      [] path = ".github/workflows" -> "GitHub Actions"
      [] path = ".circleci/config.yml" -> "CircleCI"
      [] path = "azure-pipelines.yml" -> "Azure Pipelines"
      [] path = ".travis.yml" -> "Travis CI"
      [] path = "Jenkinsfile" -> "Jenkins"

\* C15: ci.config_files holds exactly the known paths that exist, each once,
\* in the fixed probe order; ci.platforms has the same length and entry i is
\* the label of entry i of config_files; with no known path present
\* platforms, config_files and stages are empty.
C15_CiInProbeOrder ==
    \A a \in Analyzers :
        CiPassDone(a) =>
            LET ci == rec[a].ci
                present == {C15_ProbeOrder[i] : i \in 1..Len(C15_ProbeOrder)}
                              \cap repo.ci_paths
            IN  /\ Len(ci.platforms) = Len(ci.config_files)
                /\ {ci.config_files[i] : i \in 1..Len(ci.config_files)} = present
                /\ Len(ci.config_files) = Cardinality(present)
                /\ \A i, j \in 1..Len(ci.config_files) :
                      i < j => C15_Rank(ci.config_files[i]) < C15_Rank(ci.config_files[j])
                /\ \A i \in 1..Len(ci.config_files) :
                      ci.platforms[i] = C15_Label(ci.config_files[i])
                /\ present = {} =>
                      ci.platforms = << >> /\ ci.config_files = << >> /\ ci.stages = << >>

\* the CI pass has returned for a repository with .travis.yml, Jenkinsfile
\* and .gitlab-ci.yml, and lists GitLab CI first and Jenkins last
C15_Witness ==
    \E a \in Analyzers :
        /\ CiPassDone(a)
        /\ repo.ci_paths = {".travis.yml", "Jenkinsfile", ".gitlab-ci.yml"}
        /\ rec[a].ci.platforms = << "GitLab CI", "Travis CI", "Jenkins" >>
        /\ rec[a].ci.stages = << "build", "test" >>

\* the files of extension ext among the files the code scan reads
C16_OfExt(r, ext) == SelectSeq(C8_Scanned(r), LAMBDA f : ExtOrOther(f.name) = ext)

\* C16: a file whose read raises is skipped as a whole: the code section is
\* the one of the tree without the unreadable files; total_lines, every
\* per-extension count and line sum and loc_breakdown count the readable
\* files only, no entry of main_files names an unreadable file, and the
\* files after an unreadable one are still scanned.
C16_UnreadableSkipped ==
    \A a \in Analyzers :
        CodePassDone(a) =>
            LET code == rec[a].code
                exts == code.files_by_extension
            IN  /\ code = _analyze_code(
                             [repo EXCEPT !.files = SelectSeq(@, LAMBDA f : f.readable)])
                /\ code.total_lines = C8_LinesScanned(repo)
                /\ \A i \in 1..Len(exts) :
                      /\ exts[i].count = Len(C16_OfExt(repo, exts[i].ext))
                      /\ exts[i].count > 0
                      /\ exts[i].lines
                           = SumInts([k \in 1..Len(C16_OfExt(repo, exts[i].ext)) |->
                                        ReadLines(C16_OfExt(repo, exts[i].ext)[k])])
                /\ \A i \in 1..Len(C8_Scanned(repo)) :
                      \E k \in 1..Len(exts) :
                          exts[k].ext = ExtOrOther(C8_Scanned(repo)[i].name)
                /\ \A i \in 1..Len(code.main_files) :
                      \A k \in 1..Len(repo.files) :
                          RelPath(repo.files[k]) = code.main_files[i].path
                              => repo.files[k].readable
                /\ code.loc_breakdown.source + code.loc_breakdown.tests
                     + code.loc_breakdown.config + code.loc_breakdown.docs
                     = C8_LinesScanned(repo) - C8_LinesIn(repo, "none")

\* the code pass has returned for a tree in which an unreadable source file
\* is followed by a readable one, whose lines are counted
C16_Witness ==
    \E a \in Analyzers :
        /\ CodePassDone(a)
        /\ rec[a].code.total_lines > 0
        /\ \E i, j \in 1..Len(repo.files) :
              /\ i < j
              /\ ~ repo.files[i].readable /\ IsMainFile(repo.files[i].name)
              /\ \A k \in 1..Len(repo.files[i].dirs) : repo.files[i].dirs[k] \notin CODE_DENY
              /\ repo.files[j].readable
              /\ \E k \in 1..Len(rec[a].code.main_files) :
                    rec[a].code.main_files[k].path = RelPath(repo.files[j])

\* query q of the repository raises: the call times out, or the commit count
\* it printed is not a number
C17_Raises(r, q) ==
    \/ r.git[q].status = "timeout"
    \/ q = "count" /\ r.git[q].status = "ok" /\ ~ r.git[q].out.parses

\* the position of the first query that raises, 6 when none does
C17_FirstRaise(r) ==
    LET bad == {i \in 1..Len(GIT_QUERIES) : C17_Raises(r, GIT_QUERIES[i])}
    IN  IF bad = {} THEN Len(GIT_QUERIES) + 1
        ELSE CHOOSE i \in bad : \A j \in bad : i <= j

\* the git section with the fields of the queries before the first one that
\* raises and the defaults for the others
C17_KeptFields(r) ==
    LET use(i, g) ==
            IF i < C17_FirstRaise(r) THEN AfterQuery(GIT_QUERIES[i], g, r.git[GIT_QUERIES[i]])
            ELSE g
    IN  use(5, use(4, use(3, use(2, use(1, GitDefaults)))))

C17_AllPasses ==
    << "git", "code", "tests", "dependencies", "files", "ci", "quality" >>

\* C17: an exception inside the VCS pass ends that pass only: the git section
\* keeps the fields populated before the exception and has the defaults for
\* the later ones, the code pass runs next, a call that has started is always
\* at a pass or a query that can run, and every call returns a record with
\* all ten sections after all seven passes.
C17_GitFailureContained ==
    \A a \in Analyzers :
        /\ (GitPassDone(a) /\ repo.has_git) =>
              /\ rec[a].git = C17_KeptFields(repo)
              /\ Len(issued[a]) = Min(C17_FirstRaise(repo), Len(GIT_QUERIES))
        /\ (GitPassDone(a) /\ passes[a] = << "git" >>) => pc[a] = "code"
        /\ pc[a] \in {"idle", "query"} \cup {C17_AllPasses[i] : i \in 1..7}
        /\ pc[a] = "query" => Len(issued[a]) < Len(GIT_QUERIES)
        /\ pc[a] \notin {"idle", "git", "query"} =>
              /\ GitPassDone(a)
              /\ \E i \in 1..6 : passes[a] = SubSeq(C17_AllPasses, 1, i)
                                   /\ pc[a] = C17_AllPasses[i + 1]
        /\ Returned(a) =>
              /\ DOMAIN ret[a] = SECTIONS
              /\ passes[a] = C17_AllPasses
              /\ repo.has_git => ret[a].git = C17_KeptFields(repo)

\* a call has returned a full record although the third query timed out:
\* the commit count and the branch are kept, the later fields are defaults
C17_Witness ==
    \E a \in Analyzers :
        /\ Returned(a) /\ DOMAIN ret[a] = SECTIONS
        /\ repo.has_git
        /\ repo.git.count.status = "ok" /\ repo.git.branch.status = "ok"
        /\ repo.git.branches.status = "timeout"
        /\ repo.git.log.status = "ok"
        /\ ret[a].git.total_commits = 3
        /\ ret[a].git.current_branch = "main"
        /\ ret[a].git.branches = << >>
        /\ ret[a].git.commit_history = << >>
        /\ issued[a] = << "count", "branch", "branches" >>

C19_MainFilesNotTests ==
    \A a \in Analyzers :
        CodePassDone(a) =>
            \A i \in 1..Len(rec[a].code.main_files) :
                \A k \in 1..Len(repo.files) :
                    RelPath(repo.files[k]) = rec[a].code.main_files[i].path =>
                        /\ EndsWithAny(repo.files[k].name, SOURCE_SUFFIXES)
                        /\ C8_Bucket(repo.files[k].name) # "tests"

\* xs is an initial part of ys
C20_IsPrefix(xs, ys) == Len(xs) <= Len(ys) /\ xs = SubSeq(ys, 1, Len(xs))

\* the five queries in the order of the pass
C20_QueryOrder == << "count", "branch", "branches", "contributors", "log" >>

\* one step adds at most one element at the end of xs, or starts a new call
C20_GrowsByOne(xs, ys, a) ==
    \/ ys = xs
    \/ Len(ys) = Len(xs) + 1 /\ SubSeq(ys, 1, Len(xs)) = xs
    \/ pc[a] = "idle" /\ ys = << >>

\* C20: within one analyze() call the seven passes run one after another in
\* the order git, code, tests, dependencies, files, ci, quality, each exactly
\* once before the call returns, and the five queries are issued in order,
\* each at most once: a query that failed or timed out is not issued again,
\* and after one that raised none is issued.
C20_OncePerCall ==
    /\ [](\A a \in Analyzers :
            /\ C20_IsPrefix(passes[a], C17_AllPasses)
            /\ C20_IsPrefix(issued[a], C20_QueryOrder)
            /\ \A i, j \in 1..Len(issued[a]) : i # j => issued[a][i] # issued[a][j]
            /\ \A i \in 1..(Len(issued[a]) - 1) : ~ C5_Fails(repo, issued[a][i])
                                                  \/ repo.git[issued[a][i]].status = "nonzero"
            /\ Returned(a) => passes[a] = C17_AllPasses
            /\ (calls[a] > 0 /\ pc[a] # "idle") => passes[a] # C17_AllPasses)
    /\ [][\A a \in Analyzers :
            /\ C20_GrowsByOne(passes[a], passes'[a], a)
            /\ C20_GrowsByOne(issued[a], issued'[a], a)]_vars

\* a call has returned after all seven passes although the first query timed
\* out; that query was issued once and no other was
C20_Witness ==
    \E a \in Analyzers :
        /\ Returned(a) /\ passes[a] = C17_AllPasses
        /\ repo.has_git /\ repo.git.count.status = "timeout"
        /\ issued[a] = << "count" >>

\* the four derived values as computed from the code and git sections of
\* the record prev at time t; the defaults when prev is the empty record
C21_Derived(prev, t) ==
    LET source == IF HasKey(prev, "code") THEN prev.code.loc_breakdown.source ELSE 0
        tests == IF HasKey(prev, "code") THEN prev.code.loc_breakdown.tests ELSE 0
        total == IF HasKey(prev, "git") THEN prev.git.total_commits ELSE 0
        history == IF HasKey(prev, "git") THEN prev.git.commit_history ELSE << >>
        dated == /\ HasKey(prev, "git")
                 /\ prev.git.first_commit_date.set
                 /\ prev.git.first_commit_date.parses
        age == IF dated THEN Max(1, t - prev.git.first_commit_date.day) ELSE 1
    IN  [ test_coverage |->
              IF source > 0 THEN Min(100, (tests * 100) \div source) ELSE 0,
          project_age_days |-> age,
          commits_per_day |-> RoundHalfEven(total * 100, age),
          refactoring_ratio |->
              IF total > 0
              THEN RoundHalfEven(Len(SelectSeq(history, IsRefactor)) * 1000, total)
              ELSE 0 ]

\* C21: self.data is assigned only when all seven passes have returned:
\* during a call it is still the record the previous call returned (empty on
\* a fresh analyzer); the tests pass and the quality pass compute
\* test_coverage, project_age_days, commits_per_day and refactoring_ratio
\* from the code and git sections of that record, so the first call of a
\* fresh analyzer returns 0, 1, 0 and 0 for every repository.
C21_StaleReads ==
    /\ [](\A a \in Analyzers :
            /\ pc[a] # "idle" => data[a] = ret[a]
            /\ (calls[a] = 1 /\ pc[a] # "idle") => data[a] = EmptyDict
            /\ (Returned(a) /\ calls[a] = 1) =>
                  /\ ret[a].tests.test_coverage = 0
                  /\ ret[a].quality.project_age_days = 1
                  /\ ret[a].quality.commits_per_day = 0
                  /\ ret[a].quality.refactoring_ratio = 0)
    /\ [][\A a \in Analyzers :
            /\ (pc[a] = "tests" /\ pc'[a] = "dependencies") =>
                  rec'[a].tests.test_coverage = C21_Derived(ret[a], now).test_coverage
            /\ (pc[a] = "quality" /\ pc'[a] = "idle") =>
                  /\ ret'[a].tests.test_coverage
                       = C21_Derived(ret[a], now).test_coverage
                  /\ ret'[a].quality.project_age_days
                       = C21_Derived(ret[a], now).project_age_days
                  /\ ret'[a].quality.commits_per_day
                       = C21_Derived(ret[a], now).commits_per_day
                  /\ ret'[a].quality.refactoring_ratio
                       = C21_Derived(ret[a], now).refactoring_ratio]_vars

\* the second call of an analyzer has returned for a repository without
\* history and without source lines, with the coverage and the cadence of
\* the repository its first call read
C21_Witness ==
    \E a \in Analyzers :
        /\ Returned(a) /\ calls[a] = 2
        /\ ret[a].git.total_commits = 0
        /\ ret[a].code.loc_breakdown.source = 0
        /\ ret[a].tests.test_coverage = 40
        /\ ret[a].quality.project_age_days = 10
        /\ ret[a].quality.commits_per_day = 30
        /\ ret[a].quality.refactoring_ratio = 667

\* package.json is read, is an object, and both of its values are mappings
C22_WellFormed(m) ==
    /\ m.exists /\ m.readable /\ m.json = "object"
    /\ m.deps.kind = "mapping" /\ m.dev.kind = "mapping"

\* the lines of requirements.txt that are not blank and do not start with '#'
C22_Counted(m) ==
    Cardinality({i \in 1..Len(m.lines) : m.lines[i] \notin {"blank", "comment"}})

\* C22: total_deps is not a sum over manifests: with a well-formed
\* package.json and no readable requirements.txt it is |dependencies| +
\* |devDependencies|; with a readable requirements.txt it is the number of its
\* non-blank lines that do not start with '#', whatever package.json held,
\* and package_managers then starts with 'npm', 'pip'; go.mod and Gemfile add
\* their manager name and leave the rest of the summary as it is.
C22_TotalDepsOverwritten ==
    \A a \in Analyzers :
        DepsPassDone(a) =>
            LET d == rec[a].dependencies
                pj == repo.package_json
                rq == repo.requirements
                pm == {d.package_managers[i] : i \in 1..Len(d.package_managers)}
                plain == _analyze_dependencies(
                             [repo EXCEPT !.go_mod = FALSE, !.gemfile = FALSE])
            IN  /\ (C22_WellFormed(pj) /\ ~ (rq.exists /\ rq.readable)) =>
                      d.total_deps = pj.deps.size + pj.dev.size
                /\ (rq.exists /\ rq.readable) => d.total_deps = C22_Counted(rq)
                /\ (C22_WellFormed(pj) /\ rq.exists /\ rq.readable) =>
                      SubSeq(d.package_managers, 1, 2) = << "npm", "pip" >>
                /\ "go modules" \in pm <=> repo.go_mod
                /\ "bundler" \in pm <=> repo.gemfile
                /\ d.total_deps = plain.total_deps
                /\ d.dependencies = plain.dependencies
                /\ d.dev_dependencies = plain.dev_dependencies
                /\ SubSeq(d.package_managers, 1, Len(plain.package_managers))
                     = plain.package_managers

\* the dependency pass has returned for a repository with a package.json of
\* 5 + 2 entries, a requirements.txt of three counted lines, go.mod and
\* Gemfile: total_deps is 3
C22_Witness ==
    \E a \in Analyzers :
        /\ DepsPassDone(a)
        /\ C22_WellFormed(repo.package_json)
        /\ repo.package_json.deps.size = 5 /\ repo.package_json.dev.size = 2
        /\ repo.requirements.readable
        /\ rec[a].dependencies.total_deps = 3
        /\ rec[a].dependencies.package_managers
             = << "npm", "pip", "go modules", "bundler" >>

\* C23: after the code scan total_lines is the sum of the line sums of the
\* files_by_extension entries, the four loc_breakdown buckets together hold
\* at most total_lines, every count and line sum is non-negative, every
\* files_by_extension entry has count >= 1, and no extension has two entries.
C23_CodeTotalsConsistent ==
    \A a \in Analyzers :
        CodePassDone(a) =>
            LET code == rec[a].code
                exts == code.files_by_extension
                loc == code.loc_breakdown
            IN  /\ code.total_lines = SumInts([i \in 1..Len(exts) |-> exts[i].lines])
                /\ loc.source + loc.tests + loc.config + loc.docs <= code.total_lines
                /\ code.total_lines >= 0
                /\ loc.source >= 0 /\ loc.tests >= 0 /\ loc.config >= 0 /\ loc.docs >= 0
                /\ \A i \in 1..Len(exts) : exts[i].count >= 1 /\ exts[i].lines >= 0
                /\ \A i, j \in 1..Len(exts) : i # j => exts[i].ext # exts[j].ext
                /\ \A i \in 1..Len(code.main_files) : code.main_files[i].lines >= 0

\* the code pass has returned for a tree with files of two extensions, one
\* of them in no bucket: the buckets hold fewer lines than total_lines
C23_Witness ==
    \E a \in Analyzers :
        /\ CodePassDone(a)
        /\ Len(rec[a].code.files_by_extension) >= 2
        /\ rec[a].code.loc_breakdown.source > 0
        /\ rec[a].code.loc_breakdown.source + rec[a].code.loc_breakdown.tests
             + rec[a].code.loc_breakdown.config + rec[a].code.loc_breakdown.docs
             < rec[a].code.total_lines

====
